---- MODULE Spec2Model ----
(***************************************************************************)
(* A model of the tmpsync volume driver (src/tmpsync.go): the registry of  *)
(* volumes guarded by one sync.RWMutex, the handlers Create, Remove, Path, *)
(* Mount, Unmount, Get, List and Capabilities, and the three external      *)
(* collaborators they call: the filesystem (os.MkdirAll, os.RemoveAll),    *)
(* the mount table (unix.Mount, mount.RecursiveUnmount) and rsync.         *)
(*                                                                         *)
(* The strings the code handles (volume names, paths, rsync's arguments    *)
(* and option values) are sequences of one-character strings.             *)
(***************************************************************************)
EXTENDS Integers, Sequences, FiniteSets, TLC

VARIABLES
    volumes,    \* d.volumes: a function whose domain is the set of keys of the map
    writer,     \* the goroutine inside d.Lock() .. d.Unlock(), or None
    readers,    \* the goroutines inside d.RLock() .. d.RUnlock()
    dirs,       \* the filesystem: the directories that exist
    mounts,     \* the mount table: path -> number (>= 1) of tmpfs mounts stacked on it
    pc,         \* each goroutine's position in its handler
    req,        \* each goroutine's request (name, options; whether the caller is
                \* retrying it), NoReq when idle
    ret,        \* each goroutine's return value once its handler has computed it
    pre,        \* history: registry, filesystem and mount table when the lock was taken
    fx,         \* history: the external calls the lock holder has made in this call
    created,    \* history: the names created with success and not removed since
    lastopts,   \* history: for each of those, the options of its latest such Create
    names       \* the volume names the requests of this run use

vars == <<volumes, writer, readers, dirs, mounts, pc, req, ret, pre, fx,
          created, lastopts, names>>

-----------------------------------------------------------------------------
(* Bounds *)

\* Cap on the tmpfs mounts stacked on one path (the kernel has no such cap).
MaxStack == 2

\* The goroutines serving requests concurrently (the plugin's HTTP server
\* runs each request on its own).
Procs == {"g1", "g2"}

None == "none"

-----------------------------------------------------------------------------
(* Strings as sequences of characters *)

\* The fragments between the "/" of s, in order (strings.Split(s, "/")).
RECURSIVE SplitSlash(_)
SplitSlash(s) ==
    IF \A i \in 1..Len(s) : s[i] # "/"
    THEN <<s>>
    ELSE LET k == CHOOSE i \in 1..Len(s) :
                      s[i] = "/" /\ \A j \in 1..(i - 1) : s[j] # "/"
         IN  <<SubSeq(s, 1, k - 1)>> \o SplitSlash(SubSeq(s, k + 1, Len(s)))

\* elems joined with "/" between them (strings.Join(elems, "/")).
RECURSIVE JoinSlash(_)
JoinSlash(elems) ==
    IF Len(elems) = 0 THEN <<>>
    ELSE IF Len(elems) = 1 THEN elems[1]
    ELSE elems[1] \o <<"/">> \o JoinSlash(Tail(elems))

\* path.Clean's walk over the elements of a path: "" and "." are dropped,
\* ".." removes the element before it, is dropped at the root of a rooted
\* path and is kept at the front of a relative one.
RECURSIVE CleanElems(_, _, _)
CleanElems(elems, out, rooted) ==
    IF Len(elems) = 0 THEN out
    ELSE LET e == elems[1]
             rest == Tail(elems)
         IN  IF e = <<>> \/ e = <<".">>
             THEN CleanElems(rest, out, rooted)
             ELSE IF e = <<".", ".">>
             THEN IF Len(out) > 0 /\ out[Len(out)] # <<".", ".">>
                  THEN CleanElems(rest, SubSeq(out, 1, Len(out) - 1), rooted)
                  ELSE IF rooted
                  THEN CleanElems(rest, out, rooted)
                  ELSE CleanElems(rest, Append(out, e), rooted)
             ELSE CleanElems(rest, Append(out, e), rooted)

\* path.Clean: the shortest path name equivalent to p by lexical processing.
Clean(p) ==
    LET rooted == Len(p) > 0 /\ p[1] = "/"
        body == JoinSlash(CleanElems(SplitSlash(p), <<>>, rooted))
    IN  IF rooted THEN <<"/">> \o body
        ELSE IF body = <<>> THEN <<".">>
        ELSE body

\* path.Join(a, b): empty elements are ignored, the rest joined and cleaned.
PathJoin(a, b) ==
    IF a = <<>> /\ b = <<>> THEN <<>>
    ELSE IF a = <<>> THEN Clean(b)
    ELSE IF b = <<>> THEN Clean(a)
    ELSE Clean(a \o <<"/">> \o b)

-----------------------------------------------------------------------------
(* The driver's configuration and the requests drawn *)

\* d.options.RootPath: absolute and clean (filepath.Abs), fixed at start.
RootPath == <<"/", "r">>

\* Volume names of the requests: two plain names and a second spelling "a/."
\* of the first (Create validates no name). A run draws its names from one
\* of two pools: two different volumes, or two spellings of one.
NameA == <<"a">>
NameB == <<"b">>
NameADot == <<"a", "/", ".">>
Names == {NameA, NameB, NameADot}
NamePools == {{NameA, NameB}, {NameA, NameADot}}

\* The words execRsyncCommand looks for in a volume's opmode.
WordArchive == <<"a", "r", "c", "h", "i", "v", "e">>
WordCompress == <<"c", "o", "m", "p", "r", "e", "s", "s">>
WordDelete == <<"d", "e", "l", "e", "t", "e">>
WordRecursive == <<"r", "e", "c", "u", "r", "s", "i", "v", "e">>

\* words joined with "," between them: the way a caller writes an opmode.
RECURSIVE JoinComma(_)
JoinComma(words) ==
    IF Len(words) = 0 THEN <<>>
    ELSE IF Len(words) = 1 THEN words[1]
    ELSE words[1] \o <<",">> \o JoinComma(Tail(words))

\* Option values of the Create requests.
Size100m == <<"1", "0", "0", "m">>
TargetLocal == <<"/", "b", "a", "c", "k", "u", "p", "/", "v", "1">>
TargetHost == <<"h", "o", "s", "t", ":", "/", "b">>
KeyFile == <<"/", "k">>
Empty == <<>>

\* Option maps of the Create requests: the scenario's, one with a key and
\* no size, and one with an unknown key beside a known one.
OptsFull == [fssize |-> Size100m, target |-> TargetLocal,
             opmode |-> JoinComma(<<WordArchive, WordDelete>>), sshkey |-> Empty]
OptsKey == [target |-> TargetHost, sshkey |-> KeyFile]
OptsBad == [target |-> TargetLocal, bogus |-> <<"x">>]
CreateOpts == {OptsFull, OptsKey, OptsBad}

NoOpts == <<>>
NoReq == [name |-> <<>>, opts |-> NoOpts, attempt |-> "none"]
NoRet == [err |-> "unset"]
NoPre == [volumes |-> <<>>, dirs |-> {}, mounts |-> <<>>]

\* Mutant: the arguments of path.Join are swapped.
getMntPathSwapped(name) == PathJoin(name, RootPath)

\* getMntPath: path.Join(d.options.RootPath, name).
getMntPath(name) == PathJoin(RootPath, name)

\* The keys Create's switch accepts.
OptionKeys == {"fssize", "target", "opmode", "sshkey"}

\* Whether Create's loop over r.Options reaches its end: no key falls to
\* the default case (in whatever order the map is walked).
OptionsAccepted(opts) == DOMAIN opts \subseteq OptionKeys

OptionOr(opts, key) == IF key \in DOMAIN opts THEN opts[key] ELSE Empty

\* The record Create builds: &tmpsyncVolume{} with Mountpoint set and the
\* fields the options name; fields no option names keep Go's zero value.
NewVolume(mp, opts) ==
    [Options    |-> <<>>,
     Mountpoint |-> mp,
     FsSize     |-> OptionOr(opts, "fssize"),
     Target     |-> OptionOr(opts, "target"),
     OpMode     |-> OptionOr(opts, "opmode"),
     SshKey     |-> OptionOr(opts, "sshkey")]

\* Mutant: the insert replaces the map by one that holds the new entry only.
MapInsertFresh(m, name, v) == [k \in {name} |-> v]

\* d.volumes[name] = v
MapInsert(m, name, v) ==
    [k \in DOMAIN m \cup {name} |-> IF k = name THEN v ELSE m[k]]

\* delete(d.volumes, name)
MapDelete(m, name) == [k \in DOMAIN m \ {name} |-> m[k]]

\* v, ok := d.volumes[name]
MapHas(m, name) == name \in DOMAIN m

\* The mount table: how many tmpfs mounts are stacked on path.
MountCount(mt, path) == IF path \in DOMAIN mt THEN mt[path] ELSE 0

\* unix.Mount("tmpfs", path, ...) succeeding: one more mount on top of path.
MountAdd(mt, path) ==
    [k \in DOMAIN mt \cup {path} |->
        IF k = path THEN MountCount(mt, path) + 1 ELSE mt[k]]

\* Mutant: a plain unmount, which takes off the topmost mount only.
MountRemoveTop(mt, path) ==
    IF MountCount(mt, path) <= 1
    THEN [k \in DOMAIN mt \ {path} |-> mt[k]]
    ELSE [mt EXCEPT ![path] = mt[path] - 1]

\* mount.RecursiveUnmount(path): every entry of the mount table at path is
\* unmounted, however many are stacked there; none is not an error.
MountRemoveAll(mt, path) == [k \in DOMAIN mt \ {path} |-> mt[k]]

-----------------------------------------------------------------------------
(* The lock: sync.RWMutex embedded in tmpsyncDriver *)

\* d.Lock() returns once no goroutine holds the lock in either mode.
CanLock == writer = None /\ readers = {}

\* d.RLock() returns once no goroutine holds the lock for writing.
CanRLock == writer = None

\* The history variables start afresh with every write-locked call.
Snapshot == [volumes |-> volumes, dirs |-> dirs, mounts |-> mounts]

\* d.Lock() of a handler that waits at `from` and goes on at `to`.
Lock(p, from, to) ==
    /\ pc[p] = from
    /\ CanLock
    /\ writer' = p
    /\ pc' = [pc EXCEPT ![p] = to]
    /\ pre' = Snapshot
    /\ fx' = <<>>
    /\ UNCHANGED <<names, created, lastopts, volumes, readers, dirs, mounts, req, ret>>

\* A request arriving: log.Printf, then the handler is at its d.Lock().
Call(p, to, name, opts) ==
    /\ pc[p] = "idle"
    /\ pc' = [pc EXCEPT ![p] = to]
    /\ req' = [req EXCEPT ![p] = [name |-> name, opts |-> opts, attempt |-> "first"]]
    /\ UNCHANGED <<names, created, lastopts, volumes, writer, readers, dirs, mounts, ret, pre, fx>>

\* The positions at which a write-locked handler has its return value and
\* only the deferred d.Unlock() is left.
RetPcs == {"c_ret", "r_ret", "m_ret", "u_ret", "g_ret", "l_ret"}

\* Mutant: the lock is released where the handler returns success only,
\* as with an Unlock written at the end of the body instead of deferred.
UnlockOnlyOnSuccess(p) ==
    /\ pc[p] \in RetPcs
    /\ writer = p
    /\ writer' = IF ret[p].err = "nil" THEN None ELSE writer
    /\ pc' = [pc EXCEPT ![p] = "idle"]
    /\ req' = [req EXCEPT ![p] = NoReq]
    /\ ret' = [ret EXCEPT ![p] = NoRet]
    /\ pre' = NoPre
    /\ fx' = <<>>
    /\ UNCHANGED <<names, created, lastopts, volumes, readers, dirs, mounts>>

\* defer d.Unlock(), and the handler returns.
Unlock(p) ==
    /\ pc[p] \in RetPcs
    /\ writer = p
    /\ writer' = None
    /\ pc' = [pc EXCEPT ![p] = "idle"]
    /\ req' = [req EXCEPT ![p] = NoReq]
    /\ ret' = [ret EXCEPT ![p] = NoRet]
    /\ pre' = NoPre
    /\ fx' = <<>>
    /\ UNCHANGED <<names, created, lastopts, volumes, readers, dirs, mounts>>

Ok == [err |-> "nil"]
Err(kind) == [err |-> kind]

\* One step of the lock holder p from `from` to `to` that returns r if to is
\* a return position.
Goto(p, to) == pc' = [pc EXCEPT ![p] = to]
Return(p, to, r) ==
    /\ pc' = [pc EXCEPT ![p] = to]
    /\ ret' = [ret EXCEPT ![p] = r]

-----------------------------------------------------------------------------
(* Create: src/tmpsync.go 102-133 *)

CreateCall(p) == \E n \in names, o \in CreateOpts : Call(p, "c_lock", n, o)

CreateLock(p) == Lock(p, "c_lock", "c_mkdir")

\* os.MkdirAll(v.Mountpoint, 0755): the directory exists afterwards, or the
\* call fails and Create returns its error.
CreateMkdir(p) ==
    LET mp == getMntPath(req[p].name) IN
    /\ pc[p] = "c_mkdir"
    /\ \/ /\ dirs' = dirs \cup {mp}
          /\ fx' = Append(fx, [call |-> "MkdirAll", path |-> mp, ok |-> TRUE])
          /\ Goto(p, "c_opts")
          /\ UNCHANGED ret
       \/ /\ dirs' = dirs
          /\ fx' = Append(fx, [call |-> "MkdirAll", path |-> mp, ok |-> FALSE])
          /\ Return(p, "c_ret", Err("IO"))
    /\ UNCHANGED <<names, created, lastopts, volumes, writer, readers, mounts, req, pre>>

\* Mutant: the record is inserted before the options are validated.
CreateOptionsInsertFirst(p) ==
    LET mp == getMntPath(req[p].name) IN
    /\ pc[p] = "c_opts"
    /\ volumes' = MapInsert(volumes, req[p].name, NewVolume(mp, req[p].opts))
    /\ created' = created \cup {req[p].name}
    /\ lastopts' = MapInsert(lastopts, req[p].name, req[p].opts)
    /\ IF OptionsAccepted(req[p].opts)
       THEN Return(p, "c_ret", Ok)
       ELSE Return(p, "c_ret", Err("Option"))
    /\ UNCHANGED <<names, writer, readers, dirs, mounts, req, pre, fx>>

\* Mutant: a Create over an existing record starts from that record, so
\* the fields the request does not name keep their old values.
CreateOptionsMerging(p) ==
    LET mp == getMntPath(req[p].name)
        new == NewVolume(mp, req[p].opts)
        old == IF MapHas(volumes, req[p].name) THEN volumes[req[p].name] ELSE new
        v == [Options    |-> <<>>,
              Mountpoint |-> mp,
              FsSize     |-> IF "fssize" \in DOMAIN req[p].opts THEN new.FsSize ELSE old.FsSize,
              Target     |-> IF "target" \in DOMAIN req[p].opts THEN new.Target ELSE old.Target,
              OpMode     |-> IF "opmode" \in DOMAIN req[p].opts THEN new.OpMode ELSE old.OpMode,
              SshKey     |-> IF "sshkey" \in DOMAIN req[p].opts THEN new.SshKey ELSE old.SshKey]
    IN
    /\ pc[p] = "c_opts"
    /\ IF OptionsAccepted(req[p].opts)
       THEN /\ volumes' = MapInsert(volumes, req[p].name, v)
            /\ created' = created \cup {req[p].name}
            /\ lastopts' = MapInsert(lastopts, req[p].name, req[p].opts)
            /\ Return(p, "c_ret", Ok)
       ELSE /\ volumes' = volumes
            /\ created' = created
            /\ lastopts' = lastopts
            /\ Return(p, "c_ret", Err("Option"))
    /\ UNCHANGED <<names, writer, readers, dirs, mounts, req, pre, fx>>

\* The loop over r.Options and d.volumes[r.Name] = v.
CreateOptions(p) ==
    LET mp == getMntPath(req[p].name) IN
    /\ pc[p] = "c_opts"
    /\ IF OptionsAccepted(req[p].opts)
       THEN /\ volumes' = MapInsert(volumes, req[p].name, NewVolume(mp, req[p].opts))
            /\ created' = created \cup {req[p].name}
            /\ lastopts' = MapInsert(lastopts, req[p].name, req[p].opts)
            /\ Return(p, "c_ret", Ok)
       ELSE /\ volumes' = volumes
            /\ created' = created
            /\ lastopts' = lastopts
            /\ Return(p, "c_ret", Err("Option"))
    /\ UNCHANGED <<names, writer, readers, dirs, mounts, req, pre, fx>>

Create(p) == CreateCall(p) \/ CreateLock(p) \/ CreateMkdir(p) \/ CreateOptions(p)

-----------------------------------------------------------------------------
(* Remove: src/tmpsync.go 135-153 *)

RemoveCall(p) == \E n \in names : Call(p, "r_lock", n, NoOpts)

RemoveLock(p) == Lock(p, "r_lock", "r_lookup")

\* Mutant: the directory is removed before the lookup is consulted.
RemoveLookupAfterRemoveAll(p) ==
    LET mp == getMntPath(req[p].name) IN
    /\ pc[p] = "r_lookup"
    /\ dirs' = dirs \ {mp}
    /\ IF MapHas(volumes, req[p].name)
       THEN Goto(p, "r_rmall") /\ UNCHANGED ret
       ELSE Return(p, "r_ret", Err("NotFound"))
    /\ UNCHANGED <<names, created, lastopts, volumes, writer, readers, mounts, req, pre, fx>>

\* v, ok := d.volumes[r.Name]; if !ok { return error }
RemoveLookup(p) ==
    /\ pc[p] = "r_lookup"
    /\ IF MapHas(volumes, req[p].name)
       THEN Goto(p, "r_rmall") /\ UNCHANGED ret
       ELSE Return(p, "r_ret", Err("NotFound"))
    /\ UNCHANGED <<names, created, lastopts, volumes, writer, readers, dirs, mounts, req, pre, fx>>

\* Mutant: the directory is removed and the record is left in the map.
RemoveRemoveAllKeepsRecord(p) ==
    LET mp == volumes[req[p].name].Mountpoint IN
    /\ pc[p] = "r_rmall"
    /\ \/ /\ MountCount(mounts, mp) = 0
          /\ dirs' = dirs \ {mp}
          /\ fx' = Append(fx, [call |-> "RemoveAll", path |-> mp, ok |-> TRUE])
          /\ Return(p, "r_ret", Ok)
       \/ /\ dirs' = dirs
          /\ fx' = Append(fx, [call |-> "RemoveAll", path |-> mp, ok |-> FALSE])
          /\ Return(p, "r_ret", Err("IO"))
    /\ UNCHANGED <<names, created, lastopts, volumes, writer, readers, mounts, req, pre>>

\* os.RemoveAll(v.Mountpoint), then delete(d.volumes, r.Name). The kernel
\* refuses to remove a directory that is a mount point (EBUSY), so the call
\* can succeed only where nothing is mounted; like any filesystem call it
\* can also fail for the environment's reasons. A path that does not exist
\* is removed with success.
RemoveRemoveAll(p) ==
    LET mp == volumes[req[p].name].Mountpoint IN
    /\ pc[p] = "r_rmall"
    /\ \/ /\ MountCount(mounts, mp) = 0
          /\ dirs' = dirs \ {mp}
          /\ fx' = Append(fx, [call |-> "RemoveAll", path |-> mp, ok |-> TRUE])
          /\ volumes' = MapDelete(volumes, req[p].name)
          /\ created' = created \ {req[p].name}
          /\ lastopts' = MapDelete(lastopts, req[p].name)
          /\ Return(p, "r_ret", Ok)
       \/ /\ dirs' = dirs
          /\ fx' = Append(fx, [call |-> "RemoveAll", path |-> mp, ok |-> FALSE])
          /\ volumes' = volumes
          /\ created' = created
          /\ lastopts' = lastopts
          /\ Return(p, "r_ret", Err("IO"))
    /\ UNCHANGED <<names, writer, readers, mounts, req, pre>>

Remove(p) == RemoveCall(p) \/ RemoveLock(p) \/ RemoveLookup(p) \/ RemoveRemoveAll(p)

-----------------------------------------------------------------------------
(* Path: src/tmpsync.go 155-167 *)

PathCall(p) == \E n \in names : Call(p, "p_rlock", n, NoOpts)

\* d.RLock()
PathRLock(p) ==
    /\ pc[p] = "p_rlock"
    /\ CanRLock
    /\ readers' = readers \cup {p}
    /\ Goto(p, "p_lookup")
    /\ UNCHANGED <<names, created, lastopts, volumes, writer, dirs, mounts, req, ret, pre, fx>>

PathLookup(p) ==
    /\ pc[p] = "p_lookup"
    /\ IF MapHas(volumes, req[p].name)
       THEN Return(p, "p_ret", [err |-> "nil",
                                Mountpoint |-> volumes[req[p].name].Mountpoint])
       ELSE Return(p, "p_ret", Err("NotFound"))
    /\ UNCHANGED <<names, created, lastopts, volumes, writer, readers, dirs, mounts, req, pre, fx>>

\* defer d.RUnlock(), and the handler returns.
PathRUnlock(p) ==
    /\ pc[p] = "p_ret"
    /\ readers' = readers \ {p}
    /\ pc' = [pc EXCEPT ![p] = "idle"]
    /\ req' = [req EXCEPT ![p] = NoReq]
    /\ ret' = [ret EXCEPT ![p] = NoRet]
    /\ UNCHANGED <<names, created, lastopts, volumes, writer, dirs, mounts, pre, fx>>

Path(p) == PathCall(p) \/ PathRLock(p) \/ PathLookup(p) \/ PathRUnlock(p)

-----------------------------------------------------------------------------
(* Mount: src/tmpsync.go 169-187 *)

MountCall(p) == \E n \in names : Call(p, "m_lock", n, NoOpts)

MountLock(p) == Lock(p, "m_lock", "m_lookup")

\* Mutant: Mount refuses a volume that has a mount at its mountpoint.
MountLookupRejectsMounted(p) ==
    /\ pc[p] = "m_lookup"
    /\ IF MapHas(volumes, req[p].name)
       THEN IF MountCount(mounts, volumes[req[p].name].Mountpoint) = 0
            THEN Goto(p, "m_attach") /\ UNCHANGED ret
            ELSE Return(p, "m_ret", Err("Mount"))
       ELSE Return(p, "m_ret", Err("NotFound"))
    /\ UNCHANGED <<names, created, lastopts, volumes, writer, readers, dirs, mounts, req, pre, fx>>

MountLookup(p) ==
    /\ pc[p] = "m_lookup"
    /\ IF MapHas(volumes, req[p].name)
       THEN Goto(p, "m_attach") /\ UNCHANGED ret
       ELSE Return(p, "m_ret", Err("NotFound"))
    /\ UNCHANGED <<names, created, lastopts, volumes, writer, readers, dirs, mounts, req, pre, fx>>

\* unix.Mount("tmpfs", v.Mountpoint, "tmpfs", 0, "size=" + v.FsSize): a new
\* tmpfs is mounted on top of whatever the path holds, or the call fails
\* (ENOENT where the directory is missing, or the environment's reasons) and
\* Mount returns an error.
MountAttach(p) ==
    LET v == volumes[req[p].name]
        mp == v.Mountpoint
    IN
    /\ pc[p] = "m_attach"
    /\ \/ /\ mp \in dirs
          /\ MountCount(mounts, mp) < MaxStack
          /\ mounts' = MountAdd(mounts, mp)
          /\ fx' = Append(fx, [call |-> "Mount", path |-> mp, size |-> v.FsSize,
                               ok |-> TRUE])
          /\ Return(p, "m_ret", [err |-> "nil", Mountpoint |-> mp])
       \/ /\ mounts' = mounts
          /\ fx' = Append(fx, [call |-> "Mount", path |-> mp, size |-> v.FsSize,
                               ok |-> FALSE])
          /\ Return(p, "m_ret", Err("Mount"))
    /\ UNCHANGED <<names, created, lastopts, volumes, writer, readers, dirs, req, pre>>

Mount(p) == MountCall(p) \/ MountLock(p) \/ MountLookup(p) \/ MountAttach(p)

-----------------------------------------------------------------------------
(* Unmount: src/tmpsync.go 189-207, execRsyncCommand: 71-100 *)

UnmountCall(p) == \E n \in names : Call(p, "u_lock", n, NoOpts)

\* Mutant: Unmount takes the lock for reading, as Path does.
UnmountLockShared(p) ==
    /\ pc[p] = "u_lock"
    /\ CanRLock
    /\ readers' = readers \cup {p}
    /\ Goto(p, "u_lookup")
    /\ UNCHANGED <<names, created, lastopts, volumes, writer, dirs, mounts, req, ret, pre, fx>>

UnmountLock(p) == Lock(p, "u_lock", "u_lookup")

UnmountLookup(p) ==
    /\ pc[p] = "u_lookup"
    /\ IF MapHas(volumes, req[p].name)
       THEN Goto(p, "u_sync") /\ UNCHANGED ret
       ELSE Return(p, "u_ret", Err("NotFound"))
    /\ UNCHANGED <<names, created, lastopts, volumes, writer, readers, dirs, mounts, req, pre, fx>>

\* strings.Contains(s, sub)
Contains(s, sub) ==
    \E i \in 0..(Len(s) - Len(sub)) : SubSeq(s, i + 1, i + Len(sub)) = sub

\* The value of rsync's -e option: fmt.Sprintf("ssh ... -i %v", sshkey).
SshPrefix ==
    <<"s", "s", "h", " ", "-", "o", " ", "S", "t", "r", "i", "c", "t", "H",
      "o", "s", "t", "K", "e", "y", "C", "h", "e", "c", "k", "i", "n", "g",
      "=", "n", "o", " ", "-", "o", " ", "U", "s", "e", "r", "K", "n", "o",
      "w", "n", "H", "o", "s", "t", "s", "F", "i", "l", "e", "=", "/", "d",
      "e", "v", "/", "n", "u", "l", "l", " ", "-", "o", " ", "L", "o", "g",
      "L", "e", "v", "e", "l", "=", "q", "u", "i", "e", "t", " ", "-", "i",
      " ">>

ArgArchive == <<"-", "-">> \o WordArchive
ArgCompress == <<"-", "-">> \o WordCompress
ArgDelete == <<"-", "-">> \o WordDelete
ArgRecursive == <<"-", "-">> \o WordRecursive
ArgE == <<"-", "e">>

\* Mutant: the target is put before the source.
RsyncArgsTargetFirst(target, source, opmode, sshkey) ==
    (IF Contains(opmode, WordArchive) THEN <<ArgArchive>> ELSE <<>>)
    \o (IF Contains(opmode, WordCompress) THEN <<ArgCompress>> ELSE <<>>)
    \o (IF Contains(opmode, WordDelete) THEN <<ArgDelete>> ELSE <<>>)
    \o (IF Contains(opmode, WordRecursive) THEN <<ArgRecursive>> ELSE <<>>)
    \o (IF sshkey # Empty THEN <<ArgE, SshPrefix \o sshkey>> ELSE <<>>)
    \o <<target, source>>

\* Mutant: the opmode is read as one mode of four, the first word found.
RsyncArgsExclusive(target, source, opmode, sshkey) ==
    (IF Contains(opmode, WordArchive) THEN <<ArgArchive>>
     ELSE IF Contains(opmode, WordCompress) THEN <<ArgCompress>>
     ELSE IF Contains(opmode, WordDelete) THEN <<ArgDelete>>
     ELSE IF Contains(opmode, WordRecursive) THEN <<ArgRecursive>>
     ELSE <<>>)
    \o (IF sshkey # Empty THEN <<ArgE, SshPrefix \o sshkey>> ELSE <<>>)
    \o <<source, target>>

\* The argument list execRsyncCommand builds: one argument for each word
\* the opmode contains, "-e" and the ssh command where a key is given, then
\* the source and the target.
RsyncArgs(target, source, opmode, sshkey) ==
    (IF Contains(opmode, WordArchive) THEN <<ArgArchive>> ELSE <<>>)
    \o (IF Contains(opmode, WordCompress) THEN <<ArgCompress>> ELSE <<>>)
    \o (IF Contains(opmode, WordDelete) THEN <<ArgDelete>> ELSE <<>>)
    \o (IF Contains(opmode, WordRecursive) THEN <<ArgRecursive>> ELSE <<>>)
    \o (IF sshkey # Empty THEN <<ArgE, SshPrefix \o sshkey>> ELSE <<>>)
    \o <<source, target>>

\* The record of one run of rsync: the parameters execRsyncCommand is given,
\* the arguments it runs the command with, and whether the command exited
\* with status 0.
RsyncCall(v, ok) ==
    [call |-> "rsync", target |-> v.Target, source |-> v.Mountpoint,
     opmode |-> v.OpMode, sshkey |-> v.SshKey,
     args |-> RsyncArgs(v.Target, v.Mountpoint, v.OpMode, v.SshKey), ok |-> ok]

\* d.execRsyncCommand(v.Target, v.Mountpoint, v.OpMode, v.SshKey) exits with
\* status 0 (possible only where the source directory exists): Unmount goes
\* on to the detach.
UnmountSyncOk(p) ==
    LET v == volumes[req[p].name] IN
    /\ pc[p] = "u_sync"
    /\ v.Mountpoint \in dirs
    /\ fx' = Append(fx, RsyncCall(v, TRUE))
    /\ Goto(p, "u_detach")
    /\ UNCHANGED <<names, created, lastopts, volumes, writer, readers, dirs, mounts, req, ret, pre>>

\* Mutant: the error of the command is dropped and Unmount goes on.
UnmountSyncFailIgnored(p) ==
    LET v == volumes[req[p].name] IN
    /\ pc[p] = "u_sync"
    /\ fx' = Append(fx, RsyncCall(v, FALSE))
    /\ Goto(p, "u_detach")
    /\ UNCHANGED <<names, created, lastopts, volumes, writer, readers, dirs, mounts, req, ret, pre>>

\* The command fails: Unmount returns an error at once.
UnmountSyncFail(p) ==
    LET v == volumes[req[p].name] IN
    /\ pc[p] = "u_sync"
    /\ fx' = Append(fx, RsyncCall(v, FALSE))
    /\ Return(p, "u_ret", Err("Sync"))
    /\ UNCHANGED <<names, created, lastopts, volumes, writer, readers, dirs, mounts, req, pre>>

\* mount.RecursiveUnmount(v.Mountpoint), its error ignored; return nil.
\* Mutant: an Unmount that has detached the volume drops its record.
UnmountDetachForgets(p) ==
    LET mp == volumes[req[p].name].Mountpoint IN
    /\ pc[p] = "u_detach"
    /\ mounts' = MountRemoveAll(mounts, mp)
    /\ fx' = Append(fx, [call |-> "RecursiveUnmount", path |-> mp, ok |-> TRUE])
    /\ volumes' = MapDelete(volumes, req[p].name)
    /\ Return(p, "u_ret", Ok)
    /\ UNCHANGED <<names, created, lastopts, writer, readers, dirs, req, pre>>

UnmountDetach(p) ==
    LET mp == volumes[req[p].name].Mountpoint IN
    /\ pc[p] = "u_detach"
    /\ mounts' = MountRemoveAll(mounts, mp)
    /\ fx' = Append(fx, [call |-> "RecursiveUnmount", path |-> mp, ok |-> TRUE])
    /\ Return(p, "u_ret", Ok)
    /\ UNCHANGED <<names, created, lastopts, volumes, writer, readers, dirs, req, pre>>

Unmount(p) ==
    \/ UnmountCall(p) \/ UnmountLock(p) \/ UnmountLookup(p)
    \/ UnmountSyncOk(p) \/ UnmountSyncFail(p) \/ UnmountDetach(p)

-----------------------------------------------------------------------------
(* Get: src/tmpsync.go 209-227 *)

GetCall(p) == \E n \in names : Call(p, "g_lock", n, NoOpts)

\* Mutant: Get takes the lock for reading, as Path does.
GetLockShared(p) ==
    /\ pc[p] = "g_lock"
    /\ CanRLock
    /\ readers' = readers \cup {p}
    /\ Goto(p, "g_lookup")
    /\ UNCHANGED <<names, created, lastopts, volumes, writer, dirs, mounts, req, ret, pre, fx>>

GetLock(p) == Lock(p, "g_lock", "g_lookup")

\* The response carries the name asked for and the record's mountpoint
\* (CreatedAt, the time of the query, is left out).
GetLookup(p) ==
    /\ pc[p] = "g_lookup"
    /\ IF MapHas(volumes, req[p].name)
       THEN Return(p, "g_ret", [err |-> "nil", Name |-> req[p].name,
                                Mountpoint |-> volumes[req[p].name].Mountpoint])
       ELSE Return(p, "g_ret", Err("NotFound"))
    /\ UNCHANGED <<names, created, lastopts, volumes, writer, readers, dirs, mounts, req, pre, fx>>

Get(p) == GetCall(p) \/ GetLock(p) \/ GetLookup(p)

-----------------------------------------------------------------------------
(* List: src/tmpsync.go 229-243 *)

ListCall(p) == Call(p, "l_lock", <<>>, NoOpts)

ListLock(p) == Lock(p, "l_lock", "l_enum")

\* The orders in which a range over the map can visit its keys.
Orders(m) ==
    {o \in [1..Cardinality(DOMAIN m) -> DOMAIN m] :
        \A i, j \in DOMAIN o : i # j => o[i] # o[j]}

\* Mutant: a List of an empty map returns an error.
ListEnumerateFailsEmpty(p) ==
    /\ pc[p] = "l_enum"
    /\ IF DOMAIN volumes = {}
       THEN Return(p, "l_ret", [err |-> "Empty", Volumes |-> <<>>])
       ELSE \E o \in Orders(volumes) :
               Return(p, "l_ret",
                      [err |-> "nil",
                       Volumes |-> [i \in DOMAIN o |->
                                       [Name |-> o[i],
                                        Mountpoint |-> volumes[o[i]].Mountpoint]]])
    /\ UNCHANGED <<names, created, lastopts, volumes, writer, readers, dirs, mounts, req, pre, fx>>

\* One entry appended per key of the map, in the order the range visits
\* them, which Go leaves unspecified.
ListEnumerate(p) ==
    /\ pc[p] = "l_enum"
    /\ \E o \in Orders(volumes) :
           Return(p, "l_ret",
                  [err |-> "nil",
                   Volumes |-> [i \in DOMAIN o |->
                                   [Name |-> o[i],
                                    Mountpoint |-> volumes[o[i]].Mountpoint]]])
    /\ UNCHANGED <<names, created, lastopts, volumes, writer, readers, dirs, mounts, req, pre, fx>>

List(p) == ListCall(p) \/ ListLock(p) \/ ListEnumerate(p)

-----------------------------------------------------------------------------
(* Capabilities: src/tmpsync.go 245-253 *)

\* No lock is taken: the body runs whoever holds the lock.
CapabilitiesCall(p) == Call(p, "cap", <<>>, NoOpts)

CapabilitiesBody(p) ==
    /\ pc[p] = "cap"
    /\ Return(p, "cap_ret", [err |-> "nil", Scope |-> "local"])
    /\ UNCHANGED <<names, created, lastopts, volumes, writer, readers, dirs, mounts, req, pre, fx>>

CapabilitiesReturn(p) ==
    /\ pc[p] = "cap_ret"
    /\ pc' = [pc EXCEPT ![p] = "idle"]
    /\ req' = [req EXCEPT ![p] = NoReq]
    /\ ret' = [ret EXCEPT ![p] = NoRet]
    /\ UNCHANGED <<names, created, lastopts, volumes, writer, readers, dirs, mounts, pre, fx>>

Capabilities(p) == CapabilitiesCall(p) \/ CapabilitiesBody(p) \/ CapabilitiesReturn(p)

-----------------------------------------------------------------------------
(* The driver: src/tmpsync.go 255-269 (NewTmpsyncDriver) *)

\* The driver as NewTmpsyncDriver returns it, serving requests that draw
\* their names from pool.
InitWith(pool) ==
    /\ volumes = <<>>
    /\ writer = None
    /\ readers = {}
    /\ dirs = {}
    /\ mounts = <<>>
    /\ pc = [p \in Procs |-> "idle"]
    /\ req = [p \in Procs |-> NoReq]
    /\ ret = [p \in Procs |-> NoRet]
    /\ pre = NoPre
    /\ fx = <<>>
    /\ created = {}
    /\ lastopts = <<>>
    /\ names = pool

Init == \E pool \in NamePools : InitWith(pool)

Next ==
    \E p \in Procs :
        \/ Create(p)
        \/ Remove(p)
        \/ Path(p)
        \/ Mount(p)
        \/ Unmount(p)
        \/ Get(p)
        \/ List(p)
        \/ Capabilities(p)
        \/ Unlock(p)

Spec == Init /\ [][Next]_vars

-----------------------------------------------------------------------------
(* A caller that retries a failed Unmount, under fair scheduling *)

\* Unmount has failed on the synchronization and returns (defer d.Unlock());
\* the caller calls Unmount again for the same volume.
RetryUnmount(p) ==
    /\ pc[p] = "u_ret"
    /\ ret[p].err = "Sync"
    /\ writer = p
    /\ writer' = None
    /\ pc' = [pc EXCEPT ![p] = "u_lock"]
    /\ req' = [req EXCEPT ![p].attempt = "retry"]
    /\ ret' = [ret EXCEPT ![p] = NoRet]
    /\ pre' = NoPre
    /\ fx' = <<>>
    /\ UNCHANGED <<names, created, lastopts, volumes, readers, dirs, mounts>>

\* Any other return of a write-locked handler.
UnlockDone(p) ==
    /\ ~(pc[p] = "u_ret" /\ ret[p].err = "Sync")
    /\ Unlock(p)

\* The operations that bear on a volume's mount, with the retrying caller.
NextRetry ==
    \E p \in Procs :
        \/ Create(p)
        \/ Remove(p)
        \/ Mount(p)
        \/ Unmount(p)
        \/ UnlockDone(p)
        \/ RetryUnmount(p)

\* d.Lock() returning.
Acquire(p) == CreateLock(p) \/ RemoveLock(p) \/ MountLock(p) \/ UnmountLock(p)

\* The steps of a handler that holds the lock.
Run(p) ==
    \/ CreateMkdir(p) \/ CreateOptions(p)
    \/ RemoveLookup(p) \/ RemoveRemoveAll(p)
    \/ MountLookup(p) \/ MountAttach(p)
    \/ UnmountLookup(p) \/ UnmountSyncOk(p) \/ UnmountSyncFail(p) \/ UnmountDetach(p)
    \/ UnlockDone(p) \/ RetryUnmount(p)

\* Every goroutine that can run does; the lock is fair (a goroutine that
\* could take it again and again takes it); and the synchronization, tried
\* again and again, succeeds at last.
SpecRetry ==
    /\ InitWith({NameA})
    /\ [][NextRetry]_vars
    /\ \A p \in Procs :
           /\ WF_vars(Run(p))
           /\ SF_vars(Acquire(p))
           /\ SF_vars(UnmountSyncOk(p))

-----------------------------------------------------------------------------
(* The seven operations called by both callers on one volume, with the     *)
(* scheduling the driver runs under: a handler that can take a step takes  *)
(* it (every external call returns), and a handler waiting for the lock    *)
(* gets it if it is free again and again (sync.RWMutex hands the lock to   *)
(* a starving waiter). Callers are not obliged to call.                    *)

AcquireAny(p) ==
    \/ CreateLock(p)
    \/ RemoveLock(p)
    \/ PathRLock(p)
    \/ MountLock(p)
    \/ UnmountLock(p)
    \/ GetLock(p)
    \/ ListLock(p)

Proceed(p) ==
    \/ CreateMkdir(p) \/ CreateOptions(p)
    \/ RemoveLookup(p) \/ RemoveRemoveAll(p)
    \/ PathLookup(p) \/ PathRUnlock(p)
    \/ MountLookup(p) \/ MountAttach(p)
    \/ UnmountLookup(p) \/ UnmountSyncOk(p) \/ UnmountSyncFail(p)
    \/ UnmountDetach(p)
    \/ GetLookup(p)
    \/ ListEnumerate(p)
    \/ CapabilitiesBody(p) \/ CapabilitiesReturn(p)
    \/ Unlock(p)

SpecFair ==
    /\ InitWith({NameA})
    /\ [][Next]_vars
    /\ \A p \in Procs : WF_vars(Proceed(p)) /\ SF_vars(AcquireAny(p))

-----------------------------------------------------------------------------
(* One caller creating a volume with every opmode and unmounting it: the   *)
(* argument lists execRsyncCommand builds (src/tmpsync.go 71-100).         *)

Words == {WordArchive, WordCompress, WordDelete, WordRecursive}

\* The lists of distinct words, in every order.
WordLists ==
    {w \in UNION {[1..n -> Words] : n \in 0..Cardinality(Words)} :
        \A i, j \in DOMAIN w : i # j => w[i] # w[j]}

\* A Create request for each list of words, with and without a key.
ModeOpts ==
    {[target |-> TargetLocal, opmode |-> JoinComma(w), sshkey |-> k] :
        w \in WordLists, k \in {Empty, KeyFile}}

Solo == CHOOSE p \in Procs : TRUE

CreateCallMode(p) == \E n \in names, o \in ModeOpts : Call(p, "c_lock", n, o)

NextArgs ==
    \/ CreateCallMode(Solo)
    \/ CreateLock(Solo)
    \/ CreateMkdir(Solo)
    \/ CreateOptions(Solo)
    \/ Unmount(Solo)
    \/ Unlock(Solo)

SpecArgs == InitWith({NameA}) /\ [][NextArgs]_vars

-----------------------------------------------------------------------------
(* Properties *)

\* The positions of fx that record a call of the given kind.
Calls(kind) == {i \in 1..Len(fx) : fx[i].call = kind}

UnmountPcs == {"u_lookup", "u_sync", "u_detach", "u_ret"}

\* C1: in every Unmount of a registered volume the detach comes only after
\* a synchronization that succeeded; until a detach the mount table is as it
\* was when the call began; and when the synchronization fails Unmount
\* returns an error, has detached nothing, and the mount table (so the mount
\* that was attached before the call) is unchanged.
C1_SyncBeforeDetach ==
    \A p \in Procs :
        (writer = p /\ pc[p] \in UnmountPcs /\ MapHas(pre.volumes, req[p].name)) =>
            /\ \A i \in Calls("RecursiveUnmount") :
                   \E j \in 1..(i - 1) : fx[j].call = "rsync" /\ fx[j].ok
            /\ (Calls("RecursiveUnmount") = {}) => (mounts = pre.mounts)
            /\ (\E j \in Calls("rsync") : ~fx[j].ok) =>
                   /\ pc[p] = "u_ret"
                   /\ ret[p].err = "Sync"
                   /\ Calls("RecursiveUnmount") = {}
                   /\ mounts = pre.mounts

\* C1 witness: an Unmount of a mounted volume has returned the error of a
\* failed synchronization, and the mount is still attached.
C1_Witness ==
    \E p \in Procs :
        /\ pc[p] = "u_ret"
        /\ ret[p].err = "Sync"
        /\ MountCount(pre.mounts, getMntPath(req[p].name)) > 0
        /\ MountCount(mounts, getMntPath(req[p].name)) > 0

\* C3 (as claimed): at most one memory-backed filesystem is attached at any
\* volume's mountpoint.
C3_NeverDoubleMounted ==
    \A n \in DOMAIN volumes : MountCount(mounts, volumes[n].Mountpoint) <= 1

\* C4: Mount, Unmount, Remove and Get on a name absent from the registry
\* reach none of their external calls, change nothing and return NotFound.
C4_AbsentNameNotFound ==
    \A p \in Procs :
        (/\ writer = p
         /\ pc[p] \in {"m_lookup", "m_attach", "m_ret", "u_lookup", "u_sync",
                       "u_detach", "u_ret", "r_lookup", "r_rmall", "r_ret",
                       "g_lookup", "g_ret"}
         /\ ~MapHas(pre.volumes, req[p].name)) =>
            /\ pc[p] \in {"m_lookup", "m_ret", "u_lookup", "u_ret",
                          "r_lookup", "r_ret", "g_lookup", "g_ret"}
            /\ pc[p] \in RetPcs => ret[p].err = "NotFound"
            /\ fx = <<>>
            /\ mounts = pre.mounts
            /\ dirs = pre.dirs
            /\ volumes = pre.volumes

\* C4 witness: an Unmount of an unregistered name has returned NotFound
\* while a directory exists and a volume is mounted.
C4_Witness ==
    \E p \in Procs :
        /\ pc[p] = "u_ret"
        /\ ret[p].err = "NotFound"
        /\ ~MapHas(volumes, req[p].name)
        /\ mounts # <<>>
        /\ getMntPath(req[p].name) \in dirs

\* C5: no entry is lost, whatever the interleaving of the calls: the map
\* holds exactly the names created with success (and not removed), and a
\* List returns exactly one record for each of them.
C5_ConcurrentCreatesKeepAll ==
    /\ DOMAIN volumes = created
    /\ \A p \in Procs :
           pc[p] = "l_ret" =>
               /\ {ret[p].Volumes[i].Name : i \in 1..Len(ret[p].Volumes)} = created
               /\ Len(ret[p].Volumes) = Cardinality(created)

\* C5 witness: a List has returned two records after two Creates with
\* different names.
C5_Witness ==
    \E p \in Procs :
        /\ pc[p] = "l_ret"
        /\ Len(ret[p].Volumes) = 2
        /\ Cardinality(created) = 2

\* C6: when Remove returns success the name has no record (a Get would
\* return NotFound) and the backing directory does not exist.
C6_RemoveDeletesBoth ==
    \A p \in Procs :
        (pc[p] = "r_ret" /\ ret[p].err = "nil") =>
            /\ ~MapHas(volumes, req[p].name)
            /\ getMntPath(req[p].name) \notin dirs
            /\ pre.volumes[req[p].name].Mountpoint \notin dirs

\* C6 witness: a Remove of a registered volume whose directory existed has
\* returned success.
C6_Witness ==
    \E p \in Procs :
        /\ pc[p] = "r_ret"
        /\ ret[p].err = "nil"
        /\ MapHas(pre.volumes, req[p].name)
        /\ getMntPath(req[p].name) \in pre.dirs

\* A name that is one path element as it stands: no "/", not ".", "..", "".
PlainName(n) ==
    /\ n \notin {<<>>, <<".">>, <<".", ".">>}
    /\ \A i \in 1..Len(n) : n[i] # "/"

\* root/n: the root, a slash and the name, in normal form where the name is
\* not one plain path element.
RootSlash(n) ==
    IF PlainName(n)
    THEN RootPath \o <<"/">> \o n
    ELSE Clean(RootPath \o <<"/">> \o n)

\* C7: every record is stored under a name n with mountpoint root/n, in
\* every state (so it never changes, a repeated Create included), and Get,
\* Mount and Path return that mountpoint.
C7_MountpointIsRootName ==
    /\ \A n \in DOMAIN volumes : volumes[n].Mountpoint = RootSlash(n)
    /\ \A p \in Procs :
           (pc[p] \in {"g_ret", "m_ret", "p_ret"} /\ ret[p].err = "nil") =>
               ret[p].Mountpoint = RootSlash(req[p].name)

\* C7 witness: a Get has returned the mountpoint /r/a of a volume "a" that
\* was created a second time, with other options.
C7_Witness ==
    \E p \in Procs :
        /\ pc[p] = "g_ret"
        /\ ret[p].err = "nil"
        /\ req[p].name = NameA
        /\ ret[p].Mountpoint = <<"/", "r", "/", "a">>
        /\ volumes[NameA].Target = TargetHost

\* C8 (as claimed): two records under different names never share a
\* mountpoint.
C8_MountpointsDistinct ==
    \A a, b \in DOMAIN volumes :
        a # b => volumes[a].Mountpoint # volumes[b].Mountpoint

\* The positions between d.Lock() returning and the deferred d.Unlock().
LockedPcs ==
    {"c_mkdir", "c_opts", "c_ret", "r_lookup", "r_rmall", "r_ret",
     "m_lookup", "m_attach", "m_ret", "u_lookup", "u_sync", "u_detach",
     "u_ret", "g_lookup", "g_ret", "l_enum", "l_ret"}

\* The positions inside Capabilities.
CapPcs == {"cap", "cap_ret"}

\* C9 (as claimed): no two of the seven operations are in their bodies at
\* the same time, each holding the registry lock.
C9_SevenExclusive ==
    /\ \A p \in Procs : pc[p] \in LockedPcs \cup CapPcs => writer = p
    /\ \A p, q \in Procs :
           p # q => ~(pc[p] \in LockedPcs \cup CapPcs /\ pc[q] \in LockedPcs \cup CapPcs)

\* C9 (amended): Create, Mount, Unmount, Remove, Get and List hold the write
\* lock throughout their bodies, so no two of them are in their bodies at
\* the same time and none overlaps a reader; Capabilities holds no lock.
C9_SixExclusive ==
    /\ \A p \in Procs : pc[p] \in LockedPcs => (writer = p /\ readers = {})
    /\ \A p, q \in Procs :
           p # q => ~(pc[p] \in LockedPcs /\ pc[q] \in LockedPcs)
    /\ \A p \in Procs : pc[p] \in CapPcs => (writer # p /\ p \notin readers)

\* C9 witness: a Mount of "a" is at its attach while a Get of "b" waits for
\* the lock.
C9_Witness ==
    \E p, q \in Procs :
        /\ pc[p] = "m_attach" /\ req[p].name = NameA
        /\ pc[q] = "g_lock" /\ req[q].name = NameB
        /\ writer = p

\* C10: an operation that returns an error leaves the map, every field of
\* every record included, as it was when the operation took the lock.
C10_FailureKeepsRegistry ==
    \A p \in Procs :
        (writer = p /\ pc[p] \in RetPcs /\ ret[p].err # "nil") =>
            volumes = pre.volumes

\* C10 witness: a Create over an existing record has failed on an unknown
\* option key.
C10_Witness ==
    \E p \in Procs :
        /\ pc[p] = "c_ret"
        /\ ret[p].err = "Option"
        /\ MapHas(volumes, req[p].name)

Given(opts, key) == IF key \in DOMAIN opts THEN opts[key] ELSE <<>>

\* C11: every run of rsync that Unmount(n) starts is given the parameters
\* of n's record in the map: the source is root/n, the target, the opmode
\* and the key are those of the latest successful Create of n, and in the
\* command's arguments the source comes last but one and the target last.
C11_SyncUsesRecord ==
    \A p \in Procs :
        (writer = p /\ pc[p] \in UnmountPcs) =>
            \A i \in Calls("rsync") :
                LET e == fx[i]
                    n == req[p].name
                IN  /\ n \in DOMAIN volumes
                    /\ n \in DOMAIN lastopts
                    /\ e.source = RootSlash(n)
                    /\ e.target = volumes[n].Target
                    /\ e.target = Given(lastopts[n], "target")
                    /\ e.opmode = Given(lastopts[n], "opmode")
                    /\ e.sshkey = Given(lastopts[n], "sshkey")
                    /\ Len(e.args) >= 2
                    /\ e.args[Len(e.args) - 1] = RootSlash(n)
                    /\ e.args[Len(e.args)] = Given(lastopts[n], "target")

\* An Unmount has run rsync with success for a volume created with a key
\* and a remote target.
C11_Witness ==
    \E p \in Procs :
        /\ pc[p] = "u_ret"
        /\ ret[p].err = "nil"
        /\ \E i \in Calls("rsync") :
               /\ fx[i].ok
               /\ fx[i].sshkey = KeyFile
               /\ fx[i].target = TargetHost
               /\ fx[i].source = <<"/", "r", "/", "a">>

\* The parts of s between its commas.
RECURSIVE SplitComma(_)
SplitComma(s) ==
    IF \A i \in 1..Len(s) : s[i] # ","
    THEN <<s>>
    ELSE LET k == CHOOSE i \in 1..Len(s) :
                      s[i] = "," /\ \A j \in 1..(i - 1) : s[j] # ","
         IN  <<SubSeq(s, 1, k - 1)>> \o SplitComma(SubSeq(s, k + 1, Len(s)))

\* The set of flags an opmode names.
ModeSet(opmode) ==
    {SplitComma(opmode)[i] : i \in 1..Len(SplitComma(opmode))} \cap Words

HasArg(args, a) == \E k \in 1..Len(args) : args[k] = a

\* C16: the arguments of every run of rsync follow from the flag set and
\* the key the volume was created with: --archive, --compress, --delete
\* and --recursive are each present exactly if the flag is in the set, -e
\* with the ssh command naming the key is present exactly if the key is
\* not empty, and nothing else is there but the source and the target.
C16_ArgsFollowModeAndKey ==
    \A p \in Procs :
        (writer = p /\ pc[p] \in UnmountPcs) =>
            \A i \in Calls("rsync") :
                LET a == fx[i].args
                    o == lastopts[req[p].name]
                    set == ModeSet(Given(o, "opmode"))
                    key == Given(o, "sshkey")
                IN  /\ HasArg(a, ArgArchive) <=> WordArchive \in set
                    /\ HasArg(a, ArgCompress) <=> WordCompress \in set
                    /\ HasArg(a, ArgDelete) <=> WordDelete \in set
                    /\ HasArg(a, ArgRecursive) <=> WordRecursive \in set
                    /\ (key # <<>>) <=>
                           \E k \in 1..(Len(a) - 1) :
                               a[k] = ArgE /\ a[k + 1] = SshPrefix \o key
                    /\ HasArg(a, ArgE) => key # <<>>
                    /\ Len(a) = Cardinality(set)
                                + (IF key # <<>> THEN 2 ELSE 0) + 2

\* rsync has run for a volume whose opmode names two flags, the later one
\* of the four first, and that has a key.
C16_Witness ==
    \E p \in Procs :
        /\ pc[p] = "u_ret"
        /\ \E i \in Calls("rsync") :
               /\ fx[i].opmode = JoinComma(<<WordRecursive, WordCompress>>)
               /\ fx[i].sshkey = KeyFile
               /\ HasArg(fx[i].args, ArgCompress)
               /\ HasArg(fx[i].args, ArgRecursive)
               /\ ~HasArg(fx[i].args, ArgArchive)

\* C12: a Create of a name that has a record, with accepted options and its
\* directory made, returns success; the map then has the names it had, the
\* other records as they were, and under that name a record whose size,
\* target, opmode and key are the request's, empty where the request gives
\* none, whether or not the volume is mounted. Nothing is mounted or
\* unmounted by it.
C12_CreateOverwrites ==
    \A p \in Procs :
        (/\ writer = p
         /\ pc[p] = "c_ret"
         /\ req[p].name \in DOMAIN pre.volumes
         /\ DOMAIN req[p].opts \subseteq {"fssize", "target", "opmode", "sshkey"}
         /\ \A i \in Calls("MkdirAll") : fx[i].ok) =>
            LET n == req[p].name
                o == req[p].opts
            IN  /\ ret[p].err = "nil"
                /\ DOMAIN volumes = DOMAIN pre.volumes
                /\ \A m \in DOMAIN volumes \ {n} : volumes[m] = pre.volumes[m]
                /\ volumes[n].FsSize = Given(o, "fssize")
                /\ volumes[n].Target = Given(o, "target")
                /\ volumes[n].OpMode = Given(o, "opmode")
                /\ volumes[n].SshKey = Given(o, "sshkey")
                /\ volumes[n].Mountpoint = pre.volumes[n].Mountpoint
                /\ mounts = pre.mounts

\* A mounted volume that had a size and an opmode has been created again
\* with a target and a key only: its size and opmode are now empty.
C12_Witness ==
    \E p \in Procs :
        /\ pc[p] = "c_ret"
        /\ ret[p].err = "nil"
        /\ req[p].name \in DOMAIN pre.volumes
        /\ pre.volumes[req[p].name].FsSize = Size100m
        /\ req[p].opts = OptsKey
        /\ volumes[req[p].name].FsSize = <<>>
        /\ volumes[req[p].name].OpMode = <<>>
        /\ MountCount(mounts, volumes[req[p].name].Mountpoint) > 0

\* C13: no operation looks at whether a volume is mounted. A Mount of a
\* registered volume always makes its one mount call, mounted already or
\* not, returns that call's outcome, and a call that succeeds adds a mount
\* to those at the mountpoint. An Unmount of a registered volume always
\* runs rsync from the mountpoint, mounted or not; where rsync succeeds it
\* goes on to the recursive unmount and returns success.
C13_MountStateUnchecked ==
    \A p \in Procs :
        (writer = p /\ req[p].name \in DOMAIN pre.volumes) =>
            LET mp == pre.volumes[req[p].name].Mountpoint IN
            /\ pc[p] = "m_ret" =>
                   /\ Len(fx) = 1
                   /\ fx[1].call = "Mount"
                   /\ fx[1].path = mp
                   /\ ret[p].err = "nil" <=> fx[1].ok
                   /\ fx[1].ok =>
                          MountCount(mounts, mp) = MountCount(pre.mounts, mp) + 1
            /\ pc[p] = "u_ret" =>
                   /\ Len(fx) >= 1
                   /\ fx[1].call = "rsync"
                   /\ fx[1].source = mp
                   /\ ret[p].err = "nil" <=> fx[1].ok
                   /\ fx[1].ok =>
                          /\ Len(fx) = 2
                          /\ fx[2].call = "RecursiveUnmount"
                          /\ fx[2].path = mp
                          /\ MountCount(mounts, mp) = 0
                   /\ ~fx[1].ok => Len(fx) = 1 /\ mounts = pre.mounts

\* An Unmount of a registered volume with nothing mounted at its mountpoint
\* has run rsync and the recursive unmount and returned success.
C13_Witness ==
    \E p \in Procs :
        /\ pc[p] = "u_ret"
        /\ ret[p].err = "nil"
        /\ req[p].name \in DOMAIN pre.volumes
        /\ MountCount(pre.mounts, pre.volumes[req[p].name].Mountpoint) = 0
        /\ Len(fx) = 2
        /\ fx[1].call = "rsync"
        /\ fx[2].call = "RecursiveUnmount"

\* The positions at which a handler is about to make, or is making, the
\* mount call, the rsync run or the recursive unmount.
ExternalPcs == {"m_attach", "u_sync", "u_detach"}

\* The positions inside the body of Path, between RLock and RUnlock.
PathPcs == {"p_lookup", "p_ret"}

\* C14: a handler at a mount call, an rsync run or a recursive unmount
\* holds the write lock, so at most one handler is at such a call, whatever
\* the volumes; and while one is, no other call of Create, Remove, Mount,
\* Unmount, Get, List or Path is inside its body: those that have arrived
\* wait for the lock, and none can return.
C14_ExternalCallsUnderLock ==
    \A p \in Procs :
        pc[p] \in ExternalPcs =>
            /\ writer = p
            /\ readers = {}
            /\ \A q \in Procs \ {p} :
                   /\ pc[q] \notin ExternalPcs
                   /\ pc[q] \notin LockedPcs \cup PathPcs

\* An Unmount is at its rsync run while a Mount of another volume waits
\* for the lock.
C14_Witness ==
    \E p, q \in Procs :
        /\ pc[p] = "u_sync"
        /\ pc[q] = "m_lock"
        /\ req[q].name # req[p].name
        /\ MapHas(volumes, req[q].name)

\* C15: a List always returns success, and its response has exactly one
\* entry for each name created with success and not removed since, with
\* that name and its record's mountpoint, and no other entry.
C15_ListEnumeratesRegistry ==
    \A p \in Procs :
        pc[p] = "l_ret" =>
            LET vs == ret[p].Volumes IN
            /\ ret[p].err = "nil"
            /\ \A n \in created :
                   Cardinality({i \in 1..Len(vs) : vs[i].Name = n}) = 1
            /\ \A i \in 1..Len(vs) :
                   /\ vs[i].Name \in created
                   /\ vs[i].Mountpoint = RootSlash(vs[i].Name)
            /\ \A i, j \in 1..Len(vs) : vs[i] = vs[j] => i = j

\* A List has returned the entry of "b" before that of "a".
C15_Witness ==
    \E p \in Procs :
        /\ pc[p] = "l_ret"
        /\ ret[p].Volumes =
               <<[Name |-> NameB, Mountpoint |-> <<"/", "r", "/", "b">>],
                 [Name |-> NameA, Mountpoint |-> <<"/", "r", "/", "a">>]>>

\* The positions of Mount, Unmount, Get, List, Path and Capabilities, from
\* the call to the return.
ReadOnlyPcs ==
    {"m_lock", "m_lookup", "m_attach", "m_ret",
     "u_lock", "u_lookup", "u_sync", "u_detach", "u_ret",
     "g_lock", "g_lookup", "g_ret", "l_lock", "l_enum", "l_ret",
     "p_rlock", "p_lookup", "p_ret", "cap", "cap_ret"}

\* C17: no step of Mount, Unmount, Get, List, Path or Capabilities, on a
\* path that succeeds or one that fails, changes the map: its names and
\* every field of every record stay as they are. The map changes only in
\* the step of Create that inserts and the step of Remove that deletes.
C17_OnlyCreateRemoveChangeRegistry ==
    [][/\ \A p \in Procs :
             (pc'[p] # pc[p] /\ (pc[p] \in ReadOnlyPcs \/ pc'[p] \in ReadOnlyPcs))
                 => volumes' = volumes
       /\ volumes' # volumes =>
             \E p \in Procs :
                 \/ pc[p] = "c_opts" /\ pc'[p] = "c_ret" /\ ret'[p].err = "nil"
                 \/ pc[p] = "r_rmall" /\ pc'[p] = "r_ret" /\ ret'[p].err = "nil"]_vars

\* An Unmount of a mounted volume has detached it and returned success,
\* with the two records of the map as they were when it took the lock.
C17_Witness ==
    \E p \in Procs :
        /\ pc[p] = "u_ret"
        /\ ret[p].err = "nil"
        /\ MountCount(pre.mounts, volumes[req[p].name].Mountpoint) > 0
        /\ Cardinality(DOMAIN volumes) = 2
        /\ volumes = pre.volumes

\* C18: a caller that is in no handler holds the lock in neither mode, so
\* every return path has released it; and, the handlers being scheduled
\* and the lock fair, every call that has entered a handler returns.
C18_EveryCallReturns ==
    /\ [](\A p \in Procs : pc[p] = "idle" => writer # p /\ p \notin readers)
    /\ \A p \in Procs : (pc[p] # "idle") ~> (pc[p] = "idle")

\* C18 witness: a Mount is about to return an error while the other caller
\* waits for the lock.
C18_Witness ==
    \E p, q \in Procs :
        /\ pc[p] = "m_ret"
        /\ ret[p].err = "Mount"
        /\ writer = p
        /\ pc[q] = "u_lock"

\* C19 (as claimed): whenever something is mounted at root/n, the name n
\* has a record in the map.
C19_NoOrphanMount ==
    \A n \in names :
        MountCount(mounts, RootSlash(n)) > 0 => MapHas(volumes, n)

\* C20 (as claimed): every name in the map has its backing directory.
C20_RegisteredHasDirectory ==
    \A n \in DOMAIN volumes : RootSlash(n) \in dirs

====
